---- MODULE Spec2Model ----
(***************************************************************************)
(* envtree: workspace-root detection by directory ascent                   *)
(* (workspace-utils) and the layered .env loader (index.ts).               *)
(*                                                                         *)
(* A path is the sequence of its segments: <<>> is "/", <<"ws","pkg">> is  *)
(* "/ws/pkg".  A relative file name is a sequence too, so that             *)
(* '.vscode/settings.json' has two segments, as path.join and              *)
(* path.basename see it.                                                   *)
(***************************************************************************)
EXTENDS Integers, Sequences, FiniteSets, TLC

VARIABLES
  fs,       \* the filesystem: existing path |-> what reading it gives
  phase,    \* "setup" while the files are laid out, "run" once the library is called
  procEnv,  \* process.env
  last,     \* the last library call that returned: its arguments and result
  task,     \* the loadEnvTree call suspended at an await, if any
  loadsLeft,\* how many calls of the loader the process has yet to make
  inflight, \* the loadEnvTree calls of a process that makes one while another is suspended
  cli       \* the envtree command: how far its action has got, the child, the exit code

vars == <<fs, phase, procEnv, last, task, loadsLeft, inflight, cli>>

----------------------------------------------------------------------------
(* Bounds *)

\* how many workspace files (lock files, indicators) the filesystem holds
MaxFiles == 2

\* how many .env files the filesystem holds
MaxEnvFiles == 2

\* how many loads one run of the process makes
MaxLoads == 2

\* The one branch of the directory tree an ascent can see: /, /ws, /ws/pkg.
Chain == <<"ws", "pkg">>

Dirs == {SubSeq(Chain, 1, d) : d \in 0..Len(Chain)}

\* What a caller may pass as startDir: a directory, possibly spelt with a
\* trailing "." or ".." segment.
StartDirs == Dirs \cup {Chain \o <<"..">>, Chain \o <<".">>}

----------------------------------------------------------------------------
(* constants.ts *)

LOCK_FILES ==
  << <<"package-lock.json">>, <<"yarn.lock">>, <<"pnpm-lock.yaml">>, <<"bun.lockb">> >>

WORKSPACE_INDICATORS ==
  << <<".git">>, <<"lerna.json">>, <<"nx.json">>, <<"rush.json">>,
     <<"workspace.json">>, <<"pnpm-workspace.yaml">>, <<"turbo.json">>,
     <<"bazel.build">>, <<"WORKSPACE">>, <<"deno.json">>, <<"deno.jsonc">>,
     <<"cargo.toml">>, <<"go.work">>, <<".vscode", "settings.json">> >>

ALL_WORKSPACE_FILES == LOCK_FILES \o WORKSPACE_INDICATORS \o << <<"package.json">> >>

\* Array.prototype.includes / the elements of an array
Elems(arr) == {arr[i] : i \in 1..Len(arr)}

----------------------------------------------------------------------------
(* node:path *)

\* path.parse(p).root of an absolute POSIX path
FsRoot == <<>>

dirname(p) == IF Len(p) = 0 THEN p ELSE SubSeq(p, 1, Len(p) - 1)

basename(p) == p[Len(p)]

join(dirPath, file) == dirPath \o file

\* path.resolve of an absolute path: "." is dropped, ".." pops a segment and
\* stays at "/" when there is none.
RECURSIVE resolveFrom(_, _)
resolveFrom(done, rest) ==
  IF Len(rest) = 0 THEN done
  ELSE IF Head(rest) = "." THEN resolveFrom(done, Tail(rest))
  ELSE IF Head(rest) = ".." THEN resolveFrom(dirname(done), Tail(rest))
  ELSE resolveFrom(Append(done, Head(rest)), Tail(rest))

resolve(p) == resolveFrom(<<>>, p)

----------------------------------------------------------------------------
(* File contents.  One text is read in three ways by the program:          *)
(*   JSON.parse       throws unless wellFormed, else gives an object whose *)
(*                    truthy top-level fields are `fields`;                *)
(*   /^\s*\[workspace\]/m.test   is `section`, whatever else the text      *)
(*                    holds;                                               *)
(*   dotenv's parse   never throws and gives `vars`.                       *)
(* readFile/readFileSync throw unless `readable`.                          *)
(***************************************************************************)

NoVars == [k \in {} |-> ""]

Text(readable, wellFormed, fields, section, envVars) ==
  [readable |-> readable, wellFormed |-> wellFormed, fields |-> fields,
   section |-> section, vars |-> envVars]

\* a file or directory whose content nothing reads
Plain == Text(TRUE, TRUE, {}, FALSE, NoVars)

\* texts of a JSON config: well-formed with one truthy field or none, a
\* syntax error in a text that names the field, and an unreadable file
JsonTexts ==
  {Text(TRUE, TRUE, f, FALSE, NoVars) : f \in {{}, {"workspaces"}, {"folders"}}}
  \cup {Text(TRUE, FALSE, {"workspaces"}, FALSE, NoVars),
        Text(FALSE, TRUE, {"workspaces"}, FALSE, NoVars)}

\* texts of a cargo.toml: with or without a [workspace] line, valid TOML or
\* not, and an unreadable file
TomlTexts ==
  {Text(TRUE, w, {}, s, NoVars) : w \in BOOLEAN, s \in BOOLEAN}
  \cup {Text(FALSE, TRUE, {}, TRUE, NoVars)}

JsonNames == { <<"deno.json">>, <<"deno.jsonc">>, <<".vscode", "settings.json">>,
               <<"package.json">> }

TextsOf(name) ==
  IF name \in JsonNames THEN JsonTexts
  ELSE IF name = <<"cargo.toml">> THEN TomlTexts
  ELSE {Plain}

\* The workspace files laid out in a directory below "/": every lock file,
\* two of the indicators that qualify by existing, every indicator whose
\* content is read, and package.json.  "/" itself, which no ascent tests, is
\* given a lock file or a .git directory.
WorkspaceFileNames(dir) ==
  IF dir = <<>> THEN { <<"package-lock.json">>, <<".git">> }
  ELSE Elems(LOCK_FILES) \cup { <<".git">>, <<"turbo.json">>, <<"cargo.toml">> }
         \cup JsonNames

----------------------------------------------------------------------------
(* workspace-utils *)

\* the value a search returns when it finds no workspace root
Null == [method |-> "null"]

isPathAvailable(filePath) == filePath \in DOMAIN fs

containsAnyOfFiles(dirPath, files) ==
  \E i \in 1..Len(files) : isPathAvailable(join(dirPath, files[i]))

\* isValidWorkspaceConfig searching the text of a deno config for the field
\* instead of parsing it.
isValidWorkspaceConfig_unparsed(filePath) ==
  LET fileName == <<basename(filePath)>>
      content  == fs[filePath]
  IN  CASE fileName = <<"cargo.toml">> ->
             content.readable /\ content.section
        [] fileName \in { <<"deno.json">>, <<"deno.jsonc">> } ->
             /\ content.readable
             /\ ("workspace" \in content.fields \/ "workspaces" \in content.fields)
        [] fileName = <<".vscode", "settings.json">> ->
             /\ content.readable
             /\ content.wellFormed
             /\ ("folders" \in content.fields \/ "workspace.folders" \in content.fields)
        [] OTHER -> fileName \in Elems(ALL_WORKSPACE_FILES)

\* Every read and parse sits in one try block whose catch returns false.
isValidWorkspaceConfig(filePath) ==
  LET fileName == <<basename(filePath)>>
      content  == fs[filePath]
  IN  CASE fileName = <<"cargo.toml">> ->
             content.readable /\ content.section
        [] fileName \in { <<"deno.json">>, <<"deno.jsonc">> } ->
             /\ content.readable
             /\ content.wellFormed
             /\ ("workspace" \in content.fields \/ "workspaces" \in content.fields)
        [] fileName = <<".vscode", "settings.json">> ->
             /\ content.readable
             /\ content.wellFormed
             /\ ("folders" \in content.fields \/ "workspace.folders" \in content.fields)
        [] OTHER -> fileName \in Elems(ALL_WORKSPACE_FILES)

containsValidWorkspaceIndicators(dirPath) ==
  \E i \in 1..Len(WORKSPACE_INDICATORS) :
     LET fullPath == join(dirPath, WORKSPACE_INDICATORS[i])
     IN  isPathAvailable(fullPath) /\ isValidWorkspaceConfig(fullPath)

isWorkspacePackageJson(packageJsonPath) ==
  LET content == fs[packageJsonPath]
  IN  /\ content.readable
      /\ content.wellFormed
      /\ \/ "workspaces" \in content.fields
         \/ containsValidWorkspaceIndicators(dirname(packageJsonPath))

\* lockFileAscent testing the filesystem root as well, before it gives up
RECURSIVE lockFileAscent_throughRoot(_, _)
lockFileAscent_throughRoot(currentDir, root) ==
  IF containsAnyOfFiles(currentDir, LOCK_FILES)
  THEN [workspaceRoot |-> currentDir, method |-> "lockfile"]
  ELSE IF currentDir = root THEN Null
       ELSE lockFileAscent_throughRoot(dirname(currentDir), root)

\* The while loop of findEnvFilesUsingLockFiles, from currentDir on.  (The
\* envFiles side list of the result, in readdir's order, is left out: the
\* loader does not read it.)
RECURSIVE lockFileAscent(_, _)
lockFileAscent(currentDir, root) ==
  IF currentDir = root THEN Null
  ELSE IF containsAnyOfFiles(currentDir, LOCK_FILES)
       THEN [workspaceRoot |-> currentDir, method |-> "lockfile"]
       ELSE LET parentDir == dirname(currentDir)
            IN  IF parentDir = currentDir THEN Null
                ELSE lockFileAscent(parentDir, root)

findEnvFilesUsingLockFiles(startDir) == lockFileAscent(resolve(startDir), FsRoot)

\* indicatorAscent preferring the qualifying directory highest in the tree.
RECURSIVE indicatorAscent_topmost(_, _)
indicatorAscent_topmost(currentDir, root) ==
  IF currentDir = root THEN Null
  ELSE LET above == indicatorAscent_topmost(dirname(currentDir), root)
       IN  IF above # Null THEN above
           ELSE IF \/ containsValidWorkspaceIndicators(currentDir)
                   \/ /\ isPathAvailable(join(currentDir, <<"package.json">>))
                      /\ isWorkspacePackageJson(join(currentDir, <<"package.json">>))
                THEN [workspaceRoot |-> currentDir, method |-> "workspace-indicators"]
                ELSE Null

\* The while loop of findEnvFilesUsingWorkspaceIndicators, from currentDir on.
RECURSIVE indicatorAscent(_, _)
indicatorAscent(currentDir, root) ==
  IF currentDir = root THEN Null
  ELSE IF containsValidWorkspaceIndicators(currentDir)
       THEN [workspaceRoot |-> currentDir, method |-> "workspace-indicators"]
       ELSE IF /\ isPathAvailable(join(currentDir, <<"package.json">>))
               /\ isWorkspacePackageJson(join(currentDir, <<"package.json">>))
            THEN [workspaceRoot |-> currentDir, method |-> "workspace-indicators"]
            ELSE LET parentDir == dirname(currentDir)
                 IN  IF parentDir = currentDir THEN Null
                     ELSE indicatorAscent(parentDir, root)

findEnvFilesUsingWorkspaceIndicators(startDir) ==
  indicatorAscent(resolve(startDir), FsRoot)

\* findEnvFiles trying the indicators before the lock files.
findEnvFiles_indicatorsFirst(startDir) ==
  LET workspaceIndicatorResult == findEnvFilesUsingWorkspaceIndicators(startDir)
  IN  IF workspaceIndicatorResult # Null THEN workspaceIndicatorResult
      ELSE findEnvFilesUsingLockFiles(startDir)

\* findEnvFiles as one ascent that tests each directory for a lock file and
\* then for an indicator before it moves up.
RECURSIVE interleavedAscent(_, _)
interleavedAscent(currentDir, root) ==
  IF currentDir = root THEN Null
  ELSE IF containsAnyOfFiles(currentDir, LOCK_FILES)
       THEN [workspaceRoot |-> currentDir, method |-> "lockfile"]
       ELSE IF indicatorAscent(currentDir, root) # Null
               /\ indicatorAscent(currentDir, root).workspaceRoot = currentDir
            THEN [workspaceRoot |-> currentDir, method |-> "workspace-indicators"]
            ELSE interleavedAscent(dirname(currentDir), root)

findEnvFiles_interleaved(startDir) == interleavedAscent(resolve(startDir), FsRoot)

findEnvFiles(startDir) ==
  LET lockFileResult == findEnvFilesUsingLockFiles(startDir)
  IN  IF lockFileResult # Null THEN lockFileResult
      ELSE findEnvFilesUsingWorkspaceIndicators(startDir)

----------------------------------------------------------------------------------------------------------------------------------------------------
(* compareWorkspaceDetectionMethods: both ascents, and which sentence it   *)
(* recommends (named here by what the sentence says).                      *)

compareWorkspaceDetectionMethods(startDir) ==
  LET lockFileResult == findEnvFilesUsingLockFiles(startDir)
      workspaceIndicatorResult == findEnvFilesUsingWorkspaceIndicators(startDir)
  IN  [lockFileMethod |-> lockFileResult,
       workspaceIndicatorMethod |-> workspaceIndicatorResult,
       recommendation |->
         IF lockFileResult # Null /\ workspaceIndicatorResult # Null
         THEN IF lockFileResult.workspaceRoot = workspaceIndicatorResult.workspaceRoot
              THEN "same workspace root"
              ELSE "different workspace roots"
         ELSE IF lockFileResult # Null THEN "only lock file method"
         ELSE IF workspaceIndicatorResult # Null THEN "only workspace indicator method"
         ELSE "no workspace root"]

----------------------------------------------------------------------------
(* The filesystem the library runs on, and the calls of its locator.       *)

NoCall == [op |-> "none"]

NoTask == [op |-> "none"]

\* no call made while another is suspended
NoCalls == <<>>

\* the envtree command has not been run
NotRun == [stage |-> "none"]

\* Some program outside the library puts a workspace file in a directory.
CreateWorkspaceFile(dir, name, text) ==
  /\ phase = "setup"
  /\ Cardinality(DOMAIN fs) < MaxFiles
  /\ join(dir, name) \notin DOMAIN fs
  /\ fs' = [p \in DOMAIN fs \cup {join(dir, name)} |->
              IF p = join(dir, name) THEN text ELSE fs[p]]
  /\ UNCHANGED <<phase, procEnv, last, task, loadsLeft, inflight, cli>>

CallFindEnvFiles(startDir) ==
  /\ last = NoCall
  /\ phase' = "run"
  /\ last' = [op |-> "findEnvFiles", startDir |-> startDir,
              result |-> findEnvFiles(startDir)]
  /\ UNCHANGED <<fs, procEnv, task, loadsLeft, inflight, cli>>

CallCompareWorkspaceDetectionMethods(startDir) ==
  /\ last = NoCall
  /\ phase' = "run"
  /\ last' = [op |-> "compareWorkspaceDetectionMethods", startDir |-> startDir,
              result |-> compareWorkspaceDetectionMethods(startDir)]
  /\ UNCHANGED <<fs, procEnv, task, loadsLeft, inflight, cli>>

InitLocate ==
  /\ fs = [p \in {} |-> Plain]
  /\ phase = "setup"
  /\ procEnv = NoVars
  /\ last = NoCall
  /\ task = NoTask
  /\ loadsLeft = 0
  /\ inflight = NoCalls
  /\ cli = NotRun

NextLocate ==
  \/ \E dir \in Dirs : \E name \in WorkspaceFileNames(dir) : \E text \in TextsOf(name) :
        CreateWorkspaceFile(dir, name, text)
  \/ \E startDir \in StartDirs : CallFindEnvFiles(startDir)
  \/ \E startDir \in StartDirs : CallCompareWorkspaceDetectionMethods(startDir)

SpecLocate == InitLocate /\ [][NextLocate]_vars

----------------------------------------------------------------------------------------------------------------------------------------------------
(* index.ts: the loader *)

existsSync(p) == p \in DOMAIN fs

\* parseEnvFile and parseEnvFileSync: the text's variables, or {} when the
\* read throws
parseEnvFile(filePath) ==
  IF fs[filePath].readable THEN fs[filePath].vars ELSE NoVars

\* String.prototype.startsWith on two paths.  No directory name of Chain is
\* the beginning of another, so a path begins with another exactly when its
\* segments do.
startsWith(dir, root) ==
  Len(root) <= Len(dir) /\ SubSeq(dir, 1, Len(root)) = root

\* collectDirs putting each directory in front of the ones before it
\* (dirs.unshift), so that the workspace root comes first
RECURSIVE collectDirs_rootFirst(_, _)
collectDirs_rootFirst(dir, root) ==
  IF ~startsWith(dir, root) THEN <<>>
  ELSE IF dir = root THEN <<dir>>
  ELSE collectDirs_rootFirst(dirname(dir), root) \o <<dir>>

\* collectDirs leaving the loop at the workspace root before pushing it
RECURSIVE collectDirs_belowRoot(_, _)
collectDirs_belowRoot(dir, root) ==
  IF ~startsWith(dir, root) \/ dir = root THEN <<>>
  ELSE <<dir>> \o collectDirs_belowRoot(dirname(dir), root)

\* the while loop of getNextJsEnvFiles: dirs, start directory first
RECURSIVE collectDirs(_, _)
collectDirs(dir, root) ==
  IF ~startsWith(dir, root) THEN <<>>
  ELSE IF dir = root THEN <<dir>>
  ELSE <<dir>> \o collectDirs(dirname(dir), root)

IfExists(filePath) == IF existsSync(filePath) THEN <<filePath>> ELSE <<>>

\* envFilesOfDir with .env.[NODE_ENV] above .env.local
envFilesOfDir_envOverLocal(dirPath, nodeEnv) ==
  (IF nodeEnv # "test"
     THEN IfExists(join(dirPath, <<".env." \o nodeEnv \o ".local">>)) ELSE <<>>)
  \o IfExists(join(dirPath, <<".env." \o nodeEnv>>))
  \o (IF nodeEnv # "test" THEN IfExists(join(dirPath, <<".env.local">>)) ELSE <<>>)
  \o IfExists(join(dirPath, <<".env">>))

\* envFilesOfDir taking .env.local in the test environment too
envFilesOfDir_localInTest(dirPath, nodeEnv) ==
  (IF nodeEnv # "test"
     THEN IfExists(join(dirPath, <<".env." \o nodeEnv \o ".local">>)) ELSE <<>>)
  \o IfExists(join(dirPath, <<".env.local">>))
  \o IfExists(join(dirPath, <<".env." \o nodeEnv>>))
  \o IfExists(join(dirPath, <<".env">>))

\* the body of getNextJsEnvFiles' for loop: the files of one directory,
\* highest priority first
envFilesOfDir(dirPath, nodeEnv) ==
  (IF nodeEnv # "test"
     THEN IfExists(join(dirPath, <<".env." \o nodeEnv \o ".local">>)) ELSE <<>>)
  \o (IF nodeEnv # "test" THEN IfExists(join(dirPath, <<".env.local">>)) ELSE <<>>)
  \o IfExists(join(dirPath, <<".env." \o nodeEnv>>))
  \o IfExists(join(dirPath, <<".env">>))

RECURSIVE envFilesOfDirs(_, _)
envFilesOfDirs(dirs, nodeEnv) ==
  IF Len(dirs) = 0 THEN <<>>
  ELSE envFilesOfDir(Head(dirs), nodeEnv) \o envFilesOfDirs(Tail(dirs), nodeEnv)

getNextJsEnvFiles(workspaceRoot, currentDir, nodeEnv) ==
  envFilesOfDirs(collectDirs(resolve(currentDir), resolve(workspaceRoot)), nodeEnv)

\* Array.prototype.reverse
reverse(arr) == [i \in 1..Len(arr) |-> arr[Len(arr) + 1 - i]]

\* Object.assign keeping the target's value of a key both objects have
assign_keepTarget(target, source) ==
  [k \in DOMAIN target \cup DOMAIN source |->
     IF k \in DOMAIN target THEN target[k] ELSE source[k]]

\* Object.assign(target, source)
assign(target, source) ==
  [k \in DOMAIN target \cup DOMAIN source |->
     IF k \in DOMAIN source THEN source[k] ELSE target[k]]

\* mergeFile recording in filesLoaded only a file that could be read
mergeFile_skipFailed(acc, filePath) ==
  IF fs[filePath].readable
  THEN [envVars |-> assign(acc.envVars, parseEnvFile(filePath)),
        filesLoaded |-> Append(acc.filesLoaded, filePath),
        reads |-> Append(acc.reads, filePath)]
  ELSE [acc EXCEPT !.reads = Append(acc.reads, filePath)]

\* one turn of the merge loop, for a file whose content has been read;
\* reads lists the files handed to parseEnvFile
mergeFile(acc, filePath) ==
  [envVars |-> assign(acc.envVars, parseEnvFile(filePath)),
   filesLoaded |-> Append(acc.filesLoaded, filePath),
   reads |-> Append(acc.reads, filePath)]

\* the merge loop of loadEnvTreeSync over the files still to load
RECURSIVE mergeFiles(_, _)
mergeFiles(acc, files) ==
  IF Len(files) = 0 THEN acc
  ELSE IF existsSync(Head(files))
       THEN mergeFiles(mergeFile(acc, Head(files)), Tail(files))
       ELSE mergeFiles(acc, Tail(files))

\* setEnvVars writing every merged variable, set or not
setEnvVars_overwrite(env, envVars) ==
  [k \in DOMAIN env \cup DOMAIN envVars |->
     IF k \in DOMAIN envVars THEN envVars[k] ELSE env[k]]

\* setEnvVars testing the entry for truthiness instead of undefined
setEnvVars_falsy(env, envVars) ==
  [k \in DOMAIN env \cup DOMAIN envVars |->
     IF k \in DOMAIN env /\ (env[k] # "" \/ k \notin DOMAIN envVars)
       THEN env[k] ELSE envVars[k]]

\* the setEnv loop: process.env after it
setEnvVars(env, envVars) ==
  [k \in DOMAIN env \cup DOMAIN envVars |->
     IF k \in DOMAIN env THEN env[k] ELSE envVars[k]]

\* process.cwd()
cwd == Chain

\* the defaults of the options: a field left out is undefined
startDirOf(options) ==
  IF "startDir" \in DOMAIN options THEN options.startDir ELSE cwd

setEnvOf(options) ==
  IF "setEnv" \in DOMAIN options THEN options.setEnv ELSE TRUE

nodeEnvOf(options, env) ==
  IF "nodeEnv" \in DOMAIN options THEN options.nodeEnv
  ELSE IF "NODE_ENV" \in DOMAIN env /\ env["NODE_ENV"] # "" THEN env["NODE_ENV"]
  ELSE "development"

\* filesToLoad without the reverse
filesToLoad_unreversed(options, env, located) ==
  getNextJsEnvFiles(located.workspaceRoot, startDirOf(options), nodeEnvOf(options, env))

\* the files to load, in the order the merge loop takes them
filesToLoad(options, env, located) ==
  reverse(getNextJsEnvFiles(located.workspaceRoot, startDirOf(options),
                            nodeEnvOf(options, env)))

\* EnvTreeResult keeping only the variables process.env does not define
EnvTreeResult_unsetOnly(acc, located) ==
  [envVars |-> [k \in DOMAIN acc.envVars \ DOMAIN procEnv |-> acc.envVars[k]],
   filesLoaded |-> acc.filesLoaded,
   workspaceRoot |-> located.workspaceRoot, method |-> located.method]

EnvTreeResult(acc, located) ==
  [envVars |-> acc.envVars, filesLoaded |-> acc.filesLoaded,
   workspaceRoot |-> located.workspaceRoot, method |-> located.method]

NothingMerged == [envVars |-> NoVars, filesLoaded |-> <<>>, reads |-> <<>>]

\* loadResult taking the start directory for the workspace root when the
\* search finds none
loadResult_startAsRoot(options, env) ==
  LET found   == findEnvFiles(startDirOf(options))
      located == IF found = Null
                 THEN [workspaceRoot |-> resolve(startDirOf(options)),
                       method |-> "workspace-indicators"]
                 ELSE found
  IN  EnvTreeResult(mergeFiles(NothingMerged, filesToLoad(options, env, located)),
                    located)

\* what loadEnvTreeSync(options) returns when process.env is env
loadResult(options, env) ==
  LET located == findEnvFiles(startDirOf(options))
  IN  IF located = Null THEN Null
      ELSE EnvTreeResult(mergeFiles(NothingMerged, filesToLoad(options, env, located)),
                         located)

\* the files loadEnvTreeSync(options) reads when process.env is env
loadReads(options, env) ==
  LET located == findEnvFiles(startDirOf(options))
  IN  IF located = Null THEN <<>>
      ELSE mergeFiles(NothingMerged, filesToLoad(options, env, located)).reads

\* envAfter copying the merged variables over process.env
\* (Object.assign(process.env, envVars)) instead of running the setEnv loop
envAfter_assign(options, env, result) ==
  IF result # Null /\ setEnvOf(options) THEN assign(env, result.envVars) ELSE env

\* process.env after a load that returned result
envAfter(options, env, result) ==
  IF result # Null /\ setEnvOf(options) THEN setEnvVars(env, result.envVars) ELSE env

----------------------------------------------------------------------------
(* index.ts, second listing: the loader that reads each file with dotenv's *)
(* config and lists the files root first.  Its functions have the names of *)
(* the first listing's; here they carry what sets them apart.              *)

\* dotenv's config({ path }): the file is read and parsed, every variable
\* process.env does not define is written to it, and the variables are
\* returned as parsed; when the read fails nothing is written and parsed is
\* undefined.
dotenvConfig(env, filePath) ==
  IF fs[filePath].readable
  THEN [parsed |-> fs[filePath].vars,
        env |-> [k \in DOMAIN env \cup DOMAIN fs[filePath].vars |->
                   IF k \in DOMAIN env THEN env[k] ELSE fs[filePath].vars[k]]]
  ELSE [env |-> env]

\* parseEnvFile of the second listing: result.parsed || {}, and process.env
\* as config left it
parseEnvFileByConfig(env, filePath) ==
  LET result == dotenvConfig(env, filePath)
  IN  [vars |-> IF "parsed" \in DOMAIN result THEN result.parsed ELSE NoVars,
       env |-> result.env]

\* collectDirsRootFirst putting each directory behind the ones before it
\* (dirs.push), so that the start directory comes first
RECURSIVE collectDirsRootFirst_push(_, _)
collectDirsRootFirst_push(dir, root) ==
  IF ~startsWith(dir, root) THEN <<>>
  ELSE IF dir = root THEN <<dir>>
  ELSE <<dir>> \o collectDirsRootFirst_push(dirname(dir), root)

\* the while loop of the second listing's getNextJsEnvFiles: dirs.unshift,
\* so the workspace root comes first
RECURSIVE collectDirsRootFirst(_, _)
collectDirsRootFirst(dir, root) ==
  IF ~startsWith(dir, root) THEN <<>>
  ELSE IF dir = root THEN <<dir>>
  ELSE Append(collectDirsRootFirst(dirname(dir), root), dir)

\* the body of its for loop: the files of one directory, lowest priority
\* first
envFilesOfDirBaseFirst(dirPath, nodeEnv) ==
  IfExists(join(dirPath, <<".env">>))
  \o IfExists(join(dirPath, <<".env." \o nodeEnv>>))
  \o (IF nodeEnv # "test" THEN IfExists(join(dirPath, <<".env.local">>)) ELSE <<>>)
  \o (IF nodeEnv # "test"
        THEN IfExists(join(dirPath, <<".env." \o nodeEnv \o ".local">>)) ELSE <<>>)

RECURSIVE envFilesOfDirsBaseFirst(_, _)
envFilesOfDirsBaseFirst(dirs, nodeEnv) ==
  IF Len(dirs) = 0 THEN <<>>
  ELSE envFilesOfDirBaseFirst(Head(dirs), nodeEnv)
         \o envFilesOfDirsBaseFirst(Tail(dirs), nodeEnv)

getNextJsEnvFilesRootFirst(workspaceRoot, currentDir, nodeEnv) ==
  envFilesOfDirsBaseFirst(
    collectDirsRootFirst(resolve(currentDir), resolve(workspaceRoot)), nodeEnv)

\* its merge loop over the files still to load; env is process.env, which
\* parseEnvFile changes as the loop goes
RECURSIVE mergeFilesByConfig(_, _)
mergeFilesByConfig(acc, files) ==
  IF Len(files) = 0 THEN acc
  ELSE IF existsSync(Head(files))
       THEN LET parsed == parseEnvFileByConfig(acc.env, Head(files))
            IN  mergeFilesByConfig(
                  [envVars |-> assign(acc.envVars, parsed.vars),
                   filesLoaded |-> Append(acc.filesLoaded, Head(files)),
                   reads |-> Append(acc.reads, Head(files)),
                   env |-> parsed.env],
                  Tail(files))
       ELSE mergeFilesByConfig(acc, Tail(files))

\* the second listing's loadEnvTree(options) when process.env is env: what
\* it returns, the files it reads, and process.env after it
loadByConfig(options, env) ==
  LET located == findEnvFiles(startDirOf(options))
      merged  == mergeFilesByConfig(
                   [envVars |-> NoVars, filesLoaded |-> <<>>, reads |-> <<>>, env |-> env],
                   getNextJsEnvFilesRootFirst(located.workspaceRoot, startDirOf(options),
                                              nodeEnvOf(options, env)))
  IN  IF located = Null THEN [result |-> Null, reads |-> <<>>, env |-> env]
      ELSE [result |-> EnvTreeResult(merged, located),
            reads |-> merged.reads,
            env |-> IF setEnvOf(options) THEN setEnvVars(merged.env, merged.envVars)
                    ELSE merged.env]

----------------------------------------------------------------------------
(* The filesystem and process environment the loader runs in, and its calls *)

EnvNames == {"development", "test"}

EnvFileNames ==
  {".env", ".env.local"} \cup {".env." \o e : e \in EnvNames}
    \cup {".env." \o e \o ".local" : e \in EnvNames}

IsEnvFile(p) == Len(p) > 0 /\ basename(p) \in EnvFileNames

\* "/ws/pkg/.env" for <<"ws", "pkg", ".env">>
RECURSIVE PathString(_)
PathString(p) ==
  IF Len(p) = 0 THEN "" ELSE PathString(dirname(p)) \o "/" \o basename(p)

\* What the .env file at p may hold.  Each file gives the keys it defines a
\* value of its own (its path), so that a merged value names the file it
\* came from; NODE_ENV is given the value "test".  Any file may define A, or
\* A and B; a .env or .env.local may be unreadable; a .env may define
\* NODE_ENV.
EnvTexts(p) ==
  {Text(TRUE, TRUE, {}, FALSE, [k \in ks |-> PathString(p)]) : ks \in {{"A"}, {"A", "B"}}}
  \cup (IF basename(p) \in {".env", ".env.local"}
          THEN {Text(FALSE, TRUE, {}, FALSE, [k \in {"A"} |-> PathString(p)])}
          ELSE {})
  \cup (IF basename(p) = ".env"
          THEN {Text(TRUE, TRUE, {}, FALSE,
                     [k \in {"A", "NODE_ENV"} |->
                        IF k = "NODE_ENV" THEN "test" ELSE PathString(p)])}
          ELSE {})

\* Where the workspace files are when the loader is used: a lock file in
\* /ws, or a .git directory in /ws/pkg (and then nothing marks /ws).
WorkspaceLayouts ==
  { (<<"ws", "package-lock.json">> :> Plain), (<<"ws", "pkg", ".git">> :> Plain) }

\* process.env when the process starts
AmbientEnvs ==
  { NoVars, [A |-> ""], [A |-> "preexisting", NODE_ENV |-> "test"] }

\* an options field left out, or given one of values
Field(name, values) == {NoVars} \cup {name :> v : v \in values}

\* options that leave setEnv to its default
DefaultSetEnvOptions ==
  {sd @@ ne : sd \in Field("startDir", {Chain \o <<"..">>}),
              ne \in Field("nodeEnv", {"test"})}

LoadOptions == {o @@ se : o \in DefaultSetEnvOptions, se \in Field("setEnv", {FALSE})}

IsLoad(call) == call.op \in {"loadEnvTree", "loadEnvTreeSync"}

\* Some program outside the library puts a .env file in a directory.
CreateEnvFile(dir, name, text) ==
  /\ phase = "setup"
  /\ Cardinality({p \in DOMAIN fs : IsEnvFile(p)}) < MaxEnvFiles
  /\ join(dir, <<name>>) \notin DOMAIN fs
  /\ fs' = [p \in DOMAIN fs \cup {join(dir, <<name>>)} |->
              IF p = join(dir, <<name>>) THEN text ELSE fs[p]]
  /\ UNCHANGED <<phase, procEnv, last, task, loadsLeft, inflight, cli>>

\* The process may call the loader when no call is under way; it calls it
\* again with the options of its last call.
MayLoad(options) ==
  /\ task = NoTask
  /\ loadsLeft > 0
  /\ IsLoad(last) => options = last.options

Returned(op, options, result, envBefore, reads) ==
  [op |-> op, options |-> options, result |-> result, envBefore |-> envBefore,
   reads |-> reads]

\* loadEnvTreeSync(options), from call to return
LoadEnvTreeSync(options) ==
  /\ MayLoad(options)
  /\ phase' = "run"
  /\ loadsLeft' = loadsLeft - 1
  /\ LET result == loadResult(options, procEnv)
     IN  /\ procEnv' = envAfter(options, procEnv, result)
         /\ last' = Returned("loadEnvTreeSync", options, result, procEnv,
                              loadReads(options, procEnv))
  /\ UNCHANGED <<fs, task, inflight, cli>>

\* the files from the next one the merge loop finds to exist
RECURSIVE dropMissing(_)
dropMissing(files) ==
  IF Len(files) = 0 \/ existsSync(Head(files)) THEN files
  ELSE dropMissing(Tail(files))

\* loadEnvTree(options) from the call to its first await: the read of the
\* first file.  With no root or no file it runs to its end in the call.
LoadEnvTree(options) ==
  /\ MayLoad(options)
  /\ phase' = "run"
  /\ loadsLeft' = loadsLeft - 1
  /\ LET located == findEnvFiles(startDirOf(options))
         pending == IF located = Null THEN <<>>
                    ELSE dropMissing(filesToLoad(options, procEnv, located))
         result  == IF located = Null THEN Null
                    ELSE EnvTreeResult(NothingMerged, located)
     IN  IF Len(pending) = 0
         THEN /\ procEnv' = envAfter(options, procEnv, result)
              /\ last' = Returned("loadEnvTree", options, result, procEnv, <<>>)
              /\ task' = NoTask
         ELSE /\ task' = [op |-> "loadEnvTree", options |-> options,
                          located |-> located, pending |-> pending,
                          acc |-> NothingMerged, envBefore |-> procEnv]
              /\ UNCHANGED <<procEnv, last>>
  /\ UNCHANGED <<fs, inflight, cli>>

\* The read loadEnvTree awaits completes: the file is merged, and the loop
\* goes on to the next read or, after the last file, to the setEnv loop and
\* the return.
LoadEnvTreeRead ==
  /\ task # NoTask
  /\ LET acc     == mergeFile(task.acc, Head(task.pending))
         pending == dropMissing(Tail(task.pending))
         result  == EnvTreeResult(acc, task.located)
     IN  IF Len(pending) = 0
         THEN /\ procEnv' = envAfter(task.options, procEnv, result)
              /\ last' = Returned("loadEnvTree", task.options, result, task.envBefore,
                                   acc.reads)
              /\ task' = NoTask
         ELSE /\ task' = [task EXCEPT !.acc = acc, !.pending = pending]
              /\ UNCHANGED <<procEnv, last>>
  /\ UNCHANGED <<fs, phase, loadsLeft, inflight, cli>>

InitLoad ==
  /\ fs \in WorkspaceLayouts
  /\ phase = "setup"
  /\ procEnv \in AmbientEnvs
  /\ last = NoCall
  /\ task = NoTask
  /\ loadsLeft = 1
  /\ inflight = NoCalls
  /\ cli = NotRun

\* One load, sync or async, with setEnv left to its default, over .env
\* files in /ws and /ws/pkg.
NextLoad ==
  \/ \E dir \in Dirs \ {FsRoot} : \E name \in EnvFileNames :
        \E text \in EnvTexts(join(dir, <<name>>)) : CreateEnvFile(dir, name, text)
  \/ \E options \in DefaultSetEnvOptions : LoadEnvTreeSync(options)
  \/ \E options \in DefaultSetEnvOptions : LoadEnvTree(options)
  \/ LoadEnvTreeRead

SpecLoad == InitLoad /\ [][NextLoad]_vars

InitReload ==
  /\ fs \in WorkspaceLayouts
  /\ phase = "setup"
  /\ procEnv \in AmbientEnvs
  /\ last = NoCall
  /\ task = NoTask
  /\ loadsLeft = MaxLoads
  /\ inflight = NoCalls
  /\ cli = NotRun

\* Loads in succession, each sync or async, over .env files in the working
\* directory.
NextReload ==
  \/ \E name \in EnvFileNames :
        \E text \in EnvTexts(join(cwd, <<name>>)) : CreateEnvFile(cwd, name, text)
  \/ \E options \in LoadOptions : LoadEnvTreeSync(options)
  \/ \E options \in LoadOptions : LoadEnvTree(options)
  \/ LoadEnvTreeRead

SpecReload == InitReload /\ [][NextReload]_vars

\* loadEnvTree(options) of the second listing, from call to return
LoadEnvTreeByConfig(options) ==
  /\ MayLoad(options)
  /\ phase' = "run"
  /\ loadsLeft' = loadsLeft - 1
  /\ LET done == loadByConfig(options, procEnv)
     IN  /\ procEnv' = done.env
         /\ last' = Returned("loadEnvTree", options, done.result, procEnv, done.reads)
  /\ UNCHANGED <<fs, task, inflight, cli>>

InitAnyLoader ==
  /\ fs \in WorkspaceLayouts
  /\ phase = "setup"
  /\ procEnv \in AmbientEnvs
  /\ last = NoCall
  /\ task = NoTask
  /\ loadsLeft = 1
  /\ inflight = NoCalls
  /\ cli = NotRun

\* One load by any of the three loaders, with any options, over .env files
\* in the working directory.
NextAnyLoader ==
  \/ \E name \in EnvFileNames :
        \E text \in EnvTexts(join(cwd, <<name>>)) : CreateEnvFile(cwd, name, text)
  \/ \E options \in LoadOptions : LoadEnvTreeSync(options)
  \/ \E options \in LoadOptions : LoadEnvTree(options)
  \/ LoadEnvTreeRead
  \/ \E options \in LoadOptions : LoadEnvTreeByConfig(options)

SpecAnyLoader == InitAnyLoader /\ [][NextAnyLoader]_vars

InitVariants ==
  /\ fs \in WorkspaceLayouts
  /\ phase = "setup"
  /\ procEnv \in AmbientEnvs
  /\ last = NoCall
  /\ task = NoTask
  /\ loadsLeft = 1
  /\ inflight = NoCalls
  /\ cli = NotRun

\* One load by the loadEnvTree of either listing, over .env files in /ws and
\* /ws/pkg.
NextVariants ==
  \/ \E dir \in Dirs \ {FsRoot} : \E name \in EnvFileNames :
        \E text \in EnvTexts(join(dir, <<name>>)) : CreateEnvFile(dir, name, text)
  \/ \E options \in DefaultSetEnvOptions : LoadEnvTree(options)
  \/ LoadEnvTreeRead
  \/ \E options \in DefaultSetEnvOptions : LoadEnvTreeByConfig(options)

SpecVariants == InitVariants /\ [][NextVariants]_vars

----------------------------------------------------------------------------
(* runnable/src/index.ts: the two callers of the example package *)

\* path.resolve() with no argument
resolveCwd == cwd

\* loadAllEnv: await loadEnvTree({ startDir: path.resolve() })
LoadAllEnv == LoadEnvTree([startDir |-> resolveCwd])

\* loadAllEnvSync: loadEnvTreeSync({ startDir: path.resolve(),
\* prefixFilter: 'NEXT_PUBLIC_' })
LoadAllEnvSync ==
  LoadEnvTreeSync([startDir |-> resolveCwd, prefixFilter |-> "NEXT_PUBLIC_"])

\* what a .env file of the example may hold: a public variable, a private
\* one, or both
PublicEnvTexts(p) ==
  {Text(TRUE, TRUE, {}, FALSE, [k \in ks |-> PathString(p)]) :
     ks \in {{"A"}, {"NEXT_PUBLIC_A"}, {"A", "NEXT_PUBLIC_A"}}}

InitRunnable ==
  /\ fs \in WorkspaceLayouts
  /\ phase = "setup"
  /\ procEnv \in AmbientEnvs
  /\ last = NoCall
  /\ task = NoTask
  /\ loadsLeft = 1
  /\ inflight = NoCalls
  /\ cli = NotRun

\* The example run in /ws/pkg, over .env files there.
NextRunnable ==
  \/ \E name \in EnvFileNames :
        \E text \in PublicEnvTexts(join(cwd, <<name>>)) : CreateEnvFile(cwd, name, text)
  \/ LoadAllEnv
  \/ LoadEnvTreeRead
  \/ LoadAllEnvSync

SpecRunnable == InitRunnable /\ [][NextRunnable]_vars

----------------------------------------------------------------------------
(* A process that calls loadEnvTree without awaiting the call before: the  *)
(* calls, numbered in the order made, are suspended at their reads and     *)
(* resumed in any order.  Between two awaits a call runs alone.            *)

\* how many of the calls made have returned
ReturnedCalls == Cardinality({i \in 1..Len(inflight) : inflight[i].state = "returned"})

\* a call that has returned: returnedAs is its place among the returns
ReturnedCall(options, result, envBefore, reads, startedAfter) ==
  [state |-> "returned", options |-> options, result |-> result,
   envBefore |-> envBefore, reads |-> reads, startedAfter |-> startedAfter,
   returnedAs |-> ReturnedCalls + 1]

\* loadEnvTree(options) called while other calls may be suspended, up to its
\* first await or, with no root or no file, to its return
StartLoadEnvTree(options) ==
  /\ loadsLeft > 0
  /\ phase' = "run"
  /\ loadsLeft' = loadsLeft - 1
  /\ LET located == findEnvFiles(startDirOf(options))
         pending == IF located = Null THEN <<>>
                    ELSE dropMissing(filesToLoad(options, procEnv, located))
         result  == IF located = Null THEN Null
                    ELSE EnvTreeResult(NothingMerged, located)
     IN  IF Len(pending) = 0
         THEN /\ procEnv' = envAfter(options, procEnv, result)
              /\ last' = Returned("loadEnvTree", options, result, procEnv, <<>>)
              /\ inflight' = Append(inflight,
                                ReturnedCall(options, result, procEnv, <<>>, ReturnedCalls))
         ELSE /\ inflight' = Append(inflight,
                                [state |-> "suspended", options |-> options,
                                 located |-> located, pending |-> pending,
                                 acc |-> NothingMerged, envBefore |-> procEnv,
                                 startedAfter |-> ReturnedCalls])
              /\ UNCHANGED <<procEnv, last>>
  /\ UNCHANGED <<fs, task, cli>>

\* The read that call i awaits completes: the file is merged and the call
\* goes on to its next read or, after the last file, through the setEnv
\* loop to its return.
ResumeLoadEnvTree(i) ==
  /\ inflight[i].state = "suspended"
  /\ LET call    == inflight[i]
         acc     == mergeFile(call.acc, Head(call.pending))
         pending == dropMissing(Tail(call.pending))
         result  == EnvTreeResult(acc, call.located)
     IN  IF Len(pending) = 0
         THEN /\ procEnv' = envAfter(call.options, procEnv, result)
              /\ last' = Returned("loadEnvTree", call.options, result, call.envBefore,
                                   acc.reads)
              /\ inflight' = [inflight EXCEPT ![i] =
                                ReturnedCall(call.options, result, call.envBefore,
                                             acc.reads, call.startedAfter)]
         ELSE /\ inflight' = [inflight EXCEPT ![i].acc = acc, ![i].pending = pending]
              /\ UNCHANGED <<procEnv, last>>
  /\ UNCHANGED <<fs, phase, task, loadsLeft, cli>>

\* the options of a call of this process: the working directory or its
\* parent, and the environment left to its default
ConcurrentOptions == Field("startDir", {Chain \o <<"..">>})

InitConcurrent ==
  /\ fs = (<<"ws", "package-lock.json">> :> Plain)
  /\ phase = "setup"
  /\ procEnv \in {NoVars, [B |-> "preexisting"]}
  /\ last = NoCall
  /\ task = NoTask
  /\ loadsLeft = MaxLoads
  /\ inflight = NoCalls
  /\ cli = NotRun

\* Calls of loadEnvTree that overlap, over .env and .env.local files in /ws
\* and /ws/pkg.
NextConcurrent ==
  \/ \E dir \in Dirs \ {FsRoot} : \E name \in {".env", ".env.local"} :
        \E text \in EnvTexts(join(dir, <<name>>)) : CreateEnvFile(dir, name, text)
  \/ \E options \in ConcurrentOptions : StartLoadEnvTree(options)
  \/ \E i \in 1..Len(inflight) : ResumeLoadEnvTree(i)

SpecConcurrent == InitConcurrent /\ [][NextConcurrent]_vars

----------------------------------------------------------------------------
(* cli.ts, the listing that runs a command: the default action of the      *)
(* envtree command, executeCommand and the handlers of the child's events. *)

\* the options the action builds from the arguments: dir defaults to
\* process.cwd(), --node-env to process.env.NODE_ENV || "development"
envTreeOptions(args, env) ==
  [convention |-> "nextjs",
   startDir |-> IF "dir" \in DOMAIN args THEN args.dir ELSE cwd,
   setEnv |-> TRUE,
   nodeEnv |-> IF "nodeEnv" \in DOMAIN args THEN args.nodeEnv
               ELSE IF "NODE_ENV" \in DOMAIN env /\ env["NODE_ENV"] # ""
                    THEN env["NODE_ENV"]
                    ELSE "development"]

\* the tokens after "--", none when there is no "--"
commandToRun(args) == IF "command" \in DOMAIN args THEN args.command ELSE <<>>

Exited(code, child) == [stage |-> "exited", exitCode |-> code, child |-> child]

NoChild == [spawned |-> FALSE]

\* executeCommand with process.env spread over the loaded variables
executeCommand_ambientFirst(command, envVars, env) ==
  IF Len(command) = 0 THEN Exited(1, NoChild)
  ELSE [stage |-> "spawned",
        child |-> [spawned |-> TRUE, command |-> command, env |-> assign(envVars, env)]]

\* executeCommand when process.env is env: the command spawned with
\* { ...process.env, ...envVars }
executeCommand(command, envVars, env) ==
  IF Len(command) = 0 THEN Exited(1, NoChild)
  ELSE [stage |-> "spawned",
        child |-> [spawned |-> TRUE, command |-> command, env |-> assign(env, envVars)]]

\* The action from the return of its await of loadEnvTree on.  An action
\* that returns without spawning leaves the process to end with code 0.
afterLoad(args, result, env) ==
  IF result = Null THEN Exited(1, NoChild)
  ELSE IF Len(result.filesLoaded) = 0
       THEN IF Len(commandToRun(args)) > 0
            THEN executeCommand(commandToRun(args), NoVars, env)
            ELSE Exited(0, NoChild)
       ELSE IF Len(commandToRun(args)) > 0
            THEN executeCommand(commandToRun(args), result.envVars, env)
            ELSE Exited(0, NoChild)

\* the code the close handler passes to process.exit: code || 0, where a
\* close event without the field code is one whose code is null
exitCodeOnClose(event) == IF "code" \in DOMAIN event THEN event.code ELSE 0

\* The command is run: the action builds the options and calls loadEnvTree,
\* which runs to its first await; with no root or no file the promise is
\* resolved at once and the action goes on.
EnvtreeAction(args) ==
  /\ cli = NotRun
  /\ task = NoTask
  /\ phase' = "run"
  /\ LET options == envTreeOptions(args, procEnv)
         located == findEnvFiles(startDirOf(options))
         pending == IF located = Null THEN <<>>
                    ELSE dropMissing(filesToLoad(options, procEnv, located))
         result  == IF located = Null THEN Null
                    ELSE EnvTreeResult(NothingMerged, located)
     IN  IF Len(pending) = 0
         THEN /\ procEnv' = envAfter(options, procEnv, result)
              /\ last' = Returned("loadEnvTree", options, result, procEnv, <<>>)
              /\ task' = NoTask
              /\ cli' = afterLoad(args, result, procEnv')
         ELSE /\ task' = [op |-> "loadEnvTree", options |-> options,
                          located |-> located, pending |-> pending,
                          acc |-> NothingMerged, envBefore |-> procEnv]
              /\ cli' = [stage |-> "awaiting", args |-> args]
              /\ UNCHANGED <<procEnv, last>>
  /\ UNCHANGED <<fs, loadsLeft, inflight>>

\* the promise the action awaits is resolved: the action goes on
EnvtreeActionResumed ==
  /\ cli.stage = "awaiting"
  /\ task = NoTask
  /\ cli' = afterLoad(cli.args, last.result, procEnv)
  /\ UNCHANGED <<fs, phase, procEnv, last, task, loadsLeft, inflight>>

\* the child's 'close' event, with its exit code or, when a signal ended
\* it, with the signal and a null code
ChildClose(event) ==
  /\ cli.stage = "spawned"
  /\ cli' = Exited(exitCodeOnClose(event),
                   [spawned |-> TRUE, command |-> cli.child.command,
                    env |-> cli.child.env, ended |-> "close", close |-> event])
  /\ UNCHANGED <<fs, phase, procEnv, last, task, loadsLeft, inflight>>

\* the child's 'error' event: the command could not be spawned
ChildError ==
  /\ cli.stage = "spawned"
  /\ cli' = Exited(1, [spawned |-> TRUE, command |-> cli.child.command,
                       env |-> cli.child.env, ended |-> "error"])
  /\ UNCHANGED <<fs, phase, procEnv, last, task, loadsLeft, inflight>>

\* the arguments of the command: [dir], --node-env, and a command after "--"
CliArgs ==
  {d @@ ne @@ c : d \in Field("dir", {Chain \o <<"..">>}),
                  ne \in Field("nodeEnv", {"test"}),
                  c \in Field("command", {<<"printenv">>})}

\* what a child's 'close' event may carry
CloseEvents == {[code |-> c] : c \in 0..2} \cup {[signal |-> "SIGTERM"]}

InitCli ==
  /\ fs \in WorkspaceLayouts
  /\ phase = "setup"
  /\ procEnv \in AmbientEnvs
  /\ last = NoCall
  /\ task = NoTask
  /\ loadsLeft = 0
  /\ inflight = NoCalls
  /\ cli = NotRun

\* One run of the envtree command in /ws/pkg, over .env files there.
NextCli ==
  \/ \E name \in EnvFileNames :
        \E text \in EnvTexts(join(cwd, <<name>>)) : CreateEnvFile(cwd, name, text)
  \/ \E args \in CliArgs : EnvtreeAction(args)
  \/ LoadEnvTreeRead
  \/ EnvtreeActionResumed
  \/ \E event \in CloseEvents : ChildClose(event)
  \/ ChildError

SpecCli == InitCli /\ [][NextCli]_vars

----
(* Properties of the locator *)

\* the directories an ascent from startDir tests: the resolved start
\* directory and its ancestors below "/"
TestedDirs(startDir) ==
  {SubSeq(resolve(startDir), 1, d) : d \in 1..Len(resolve(startDir))}

HoldsLockFile(dir) ==
  \E n \in {"package-lock.json", "yarn.lock", "pnpm-lock.yaml", "bun.lockb"} :
     Append(dir, n) \in DOMAIN fs

\* the indicator test of one directory, as the indicator ascent applies it
PassesIndicatorTest(dir) ==
  \/ containsValidWorkspaceIndicators(dir)
  \/ /\ isPathAvailable(join(dir, <<"package.json">>))
     /\ isWorkspacePackageJson(join(dir, <<"package.json">>))

\* the member of a set of directories of one branch closest to the start
Nearest(S) == CHOOSE d \in S : \A e \in S : Len(e) <= Len(d)

Located(dir, method) == [workspaceRoot |-> dir, method |-> method]

FoundEnvFiles == last.op = "findEnvFiles"

\* C1 as stated: a start directory holding a lock file is returned with
\* method lockfile, for every start directory, "/" included.
C1_AnyStartDir ==
  (FoundEnvFiles /\ HoldsLockFile(resolve(last.startDir)))
    => last.result = Located(resolve(last.startDir), "lockfile")

\* C1, amended: a start directory other than the filesystem root that holds
\* a lock file is returned as workspace root with method lockfile, whatever
\* indicators it or its ancestors hold.
C1_LockFileAtStart ==
  (/\ FoundEnvFiles
   /\ resolve(last.startDir) # FsRoot
   /\ HoldsLockFile(resolve(last.startDir)))
    => last.result = Located(resolve(last.startDir), "lockfile")

C1_Witness ==
  /\ FoundEnvFiles
  /\ resolve(last.startDir) # FsRoot
  /\ HoldsLockFile(resolve(last.startDir))
  /\ \E d \in TestedDirs(last.startDir) : PassesIndicatorTest(d)
  /\ last.result.method = "lockfile"

\* C2: the lock-file ascent runs in full before the indicator ascent: the
\* method is workspace-indicators exactly when no tested directory holds a
\* lock file and some tested directory passes the indicator test, and when a
\* tested directory holds a lock file the result is the nearest such
\* directory with method lockfile.
C2_LockAscentFirst ==
  FoundEnvFiles =>
    LET tested == TestedDirs(last.startDir)
        locked == {d \in tested : HoldsLockFile(d)}
    IN  /\ (last.result.method = "workspace-indicators")
             <=> (locked = {} /\ \E d \in tested : PassesIndicatorTest(d))
        /\ locked # {} => last.result = Located(Nearest(locked), "lockfile")

\* a lock file in an ancestor wins over an indicator closer to the start
C2_Witness ==
  /\ FoundEnvFiles
  /\ last.result.method = "lockfile"
  /\ \E d \in TestedDirs(last.startDir) :
        /\ PassesIndicatorTest(d)
        /\ ~HoldsLockFile(d)
        /\ Len(d) > Len(last.result.workspaceRoot)

\* C3: with no lock file in a tested directory and several directories
\* passing the indicator test, the result is the one closest to the start
\* directory, with method workspace-indicators.
C3_NearestIndicator ==
  FoundEnvFiles =>
    LET tested == TestedDirs(last.startDir)
        passing == {d \in tested \cup {FsRoot} : PassesIndicatorTest(d)}
    IN  ((\A d \in tested : ~HoldsLockFile(d)) /\ Cardinality(passing) >= 2)
          => last.result = Located(Nearest(passing), "workspace-indicators")

C3_Witness ==
  /\ FoundEnvFiles
  /\ Cardinality({d \in TestedDirs(last.startDir) : PassesIndicatorTest(d)}) >= 2
  /\ last.result.method = "workspace-indicators"
  /\ last.result.workspaceRoot = resolve(last.startDir)

ContentValidatedNames ==
  { <<"deno.json">>, <<"deno.jsonc">>, <<"cargo.toml">>,
    <<".vscode", "settings.json">>, <<"package.json">> }

\* the workspace files of a directory
FilesOf(dir) == {p \in DOMAIN fs : \E n \in Elems(ALL_WORKSPACE_FILES) : p = join(dir, n)}

IsContentValidated(p) == \E n \in ContentValidatedNames : \E d \in Dirs : p = join(d, n)

IsJsonConfig(p) == \E n \in JsonNames : \E d \in Dirs : p = join(d, n)

\* Whether every workspace file of a directory is a content-validated
\* indicator for which Broken holds, with at least one such file.
OnlyBroken(dir, Broken(_)) ==
  /\ FilesOf(dir) # {}
  /\ \A p \in FilesOf(dir) : IsContentValidated(p) /\ Broken(p)

Unparsable(p) == ~fs[p].readable \/ ~fs[p].wellFormed

UnparsableAsRead(p) == ~fs[p].readable \/ (IsJsonConfig(p) /\ ~fs[p].wellFormed)

EditorSettings(dir) == join(dir, <<".vscode", "settings.json">>)

DeclaresFolders(p) ==
  /\ fs[p].readable
  /\ fs[p].wellFormed
  /\ ("folders" \in fs[p].fields \/ "workspace.folders" \in fs[p].fields)

\* C19: when the only workspace file of the directories an ascent tests is
\* the start directory's .vscode/settings.json, the start directory is
\* returned with method workspace-indicators if the file parses and
\* declares folders or workspace.folders, and the result is null if it
\* declares neither.
C19_EditorConfigIndicator ==
  FoundEnvFiles =>
    LET start == resolve(last.startDir)
    IN  (/\ start # FsRoot
         /\ EditorSettings(start) \in DOMAIN fs
         /\ \A d \in TestedDirs(last.startDir) :
               FilesOf(d) \subseteq {EditorSettings(start)})
          => IF DeclaresFolders(EditorSettings(start))
             THEN last.result = Located(start, "workspace-indicators")
             ELSE last.result = Null

----------------------------------------------------------------------------
(* Properties of the loader *)

\* the last call is a load that found a workspace root
Loaded == IsLoad(last) /\ last.result # Null

\* the environment name of the last load: the option, else NODE_ENV as it
\* was when the load was called, else "development"
EnvironmentName ==
  IF "nodeEnv" \in DOMAIN last.options THEN last.options.nodeEnv
  ELSE IF "NODE_ENV" \in DOMAIN last.envBefore /\ last.envBefore["NODE_ENV"] # ""
       THEN last.envBefore["NODE_ENV"]
       ELSE "development"

StartOfLoad ==
  resolve(IF "startDir" \in DOMAIN last.options THEN last.options.startDir ELSE cwd)

IsPrefix(a, b) == Len(a) <= Len(b) /\ SubSeq(b, 1, Len(a)) = a

\* the directories from the workspace root down to the start directory
ChainDirs ==
  {d \in Dirs : IsPrefix(last.result.workspaceRoot, d) /\ IsPrefix(d, StartOfLoad)}

\* the priority of a file name within its directory, 0 for a name that is
\* not loaded in this environment
Rank(name) ==
  IF name = ".env." \o EnvironmentName \o ".local" /\ EnvironmentName # "test" THEN 4
  ELSE IF name = ".env.local" /\ EnvironmentName # "test" THEN 3
  ELSE IF name = ".env." \o EnvironmentName THEN 2
  ELSE IF name = ".env" THEN 1
  ELSE 0

\* the existing files the load is to apply
Candidates ==
  {p \in DOMAIN fs : IsEnvFile(p) /\ dirname(p) \in ChainDirs /\ Rank(basename(p)) > 0}

Defines(p, k) == fs[p].readable /\ k \in DOMAIN fs[p].vars

AllKeys == UNION {DOMAIN fs[p].vars : p \in {q \in DOMAIN fs : IsEnvFile(q)}}

\* the candidates defining k in the directory closest to the start directory
\* among those that define it
Closest(k) ==
  LET D == {p \in Candidates : Defines(p, k)}
  IN  {p \in D : \A q \in D : Len(q) <= Len(p)}

\* C5: a key defined in files of two directories of the chain has the value
\* of the directory closer to the start directory, whatever the kinds of
\* the files.
C5_CloserDirectoryWins ==
  Loaded =>
    \A k \in AllKeys :
      LET D == {p \in Candidates : Defines(p, k)}
      IN  (\E p, q \in D : dirname(p) # dirname(q))
            => /\ k \in DOMAIN last.result.envVars
               /\ last.result.envVars[k] \in {fs[p].vars[k] : p \in Closest(k)}

\* a .env of the start directory overrides a local file of the root
C5_Witness ==
  /\ Loaded
  /\ \E k \in AllKeys : \E p, q \in Candidates :
        /\ Defines(p, k) /\ Defines(q, k)
        /\ Len(p) > Len(q)
        /\ basename(p) = ".env" /\ Rank(basename(q)) >= 3
        /\ last.result.envVars[k] = fs[p].vars[k]

Range(seq) == {seq[i] : i \in 1..Len(seq)}

\* C7: in the environment "test" no .env.local or .env.test.local is in
\* filesLoaded, envVars holds only keys of the .env and .env.test files, and
\* every existing .env and .env.test of the chain is in filesLoaded.
C7_TestSkipsLocal ==
  (Loaded /\ EnvironmentName = "test") =>
    /\ \A p \in Range(last.result.filesLoaded) :
          basename(p) \notin {".env.local", ".env.test.local"}
    /\ \A k \in DOMAIN last.result.envVars :
          \E d \in ChainDirs : \E n \in {".env", ".env.test"} :
             Append(d, n) \in DOMAIN fs /\ Defines(Append(d, n), k)
    /\ \A d \in ChainDirs : \A n \in {".env", ".env.test"} :
          Append(d, n) \in DOMAIN fs => Append(d, n) \in Range(last.result.filesLoaded)

\* a local file of the chain defines a key that only it defines, and the
\* load takes another file
C7_Witness ==
  /\ Loaded
  /\ EnvironmentName = "test"
  /\ last.result.filesLoaded # <<>>
  /\ \E d \in ChainDirs : \E n \in {".env.local", ".env.test.local"} :
        /\ Append(d, n) \in DOMAIN fs
        /\ \E k \in DOMAIN fs[Append(d, n)].vars : k \notin DOMAIN last.result.envVars

\* C8: a key process.env defines when a load with setEnv enabled is called
\* (the empty string is a value) has the same value after the load.
C8_AmbientWins ==
  (IsLoad(last) /\ (("setEnv" \in DOMAIN last.options) => last.options.setEnv)) =>
    \A k \in DOMAIN last.envBefore :
       k \in DOMAIN procEnv /\ procEnv[k] = last.envBefore[k]

\* the files give a value to a key that process.env holds as ""
C8_Witness ==
  /\ Loaded
  /\ "setEnv" \notin DOMAIN last.options
  /\ \E k \in DOMAIN last.envBefore \cap DOMAIN last.result.envVars :
        /\ last.envBefore[k] = ""
        /\ last.result.envVars[k] # ""
        /\ procEnv[k] = ""
  /\ \E k \in DOMAIN last.result.envVars : k \notin DOMAIN last.envBefore

\* a step in which a call of the loader returns
Returns == task' = NoTask /\ (task # NoTask \/ loadsLeft' # loadsLeft)

SetEnvEnabled(options) == ("setEnv" \in DOMAIN options) => options.setEnv

\* C9 as stated: a load that follows a load with the same options and
\* setEnv enabled, the first started with none of the files' keys in
\* process.env, returns what the first returned and leaves process.env as
\* the first left it.
C9_AnyOptions ==
  [][(/\ IsLoad(last)
      /\ Returns
      /\ SetEnvEnabled(last.options)
      /\ DOMAIN last.envBefore \cap AllKeys = {})
       => (last'.result = last.result /\ procEnv' = procEnv)]_vars

\* C9, amended: the same, for options that give nodeEnv, or that leave it
\* out when the variables the first load merged do not define NODE_ENV.
C9_Idempotent ==
  [][(/\ IsLoad(last)
      /\ Returns
      /\ SetEnvEnabled(last.options)
      /\ DOMAIN last.envBefore \cap AllKeys = {}
      /\ \/ "nodeEnv" \in DOMAIN last.options
         \/ last.result = Null
         \/ "NODE_ENV" \notin DOMAIN last.result.envVars)
       => (last'.result = last.result /\ procEnv' = procEnv)]_vars

\* two loads have returned the variables that process.env now holds
C9_Witness ==
  /\ Loaded
  /\ task = NoTask
  /\ loadsLeft + 2 <= MaxLoads
  /\ SetEnvEnabled(last.options)
  /\ last.result.envVars # NoVars
  /\ \A k \in DOMAIN last.result.envVars :
        k \in DOMAIN procEnv /\ procEnv[k] = last.result.envVars[k]

\* the existing files of one directory, lowest priority first
BaseFirst(dir) ==
  LET names == <<".env", ".env." \o EnvironmentName, ".env.local",
                 ".env." \o EnvironmentName \o ".local">>
      loaded(n) == Rank(n) > 0 /\ Append(dir, n) \in DOMAIN fs
      paths == [i \in 1..4 |-> Append(dir, names[i])]
  IN  SelectSeq(paths, LAMBDA p : loaded(basename(p)))

\* the files of the chain from the directory at a depth down to the start
\* directory
RECURSIVE RootFirst(_)
RootFirst(depth) ==
  IF depth > Len(StartOfLoad) THEN <<>>
  ELSE BaseFirst(SubSeq(StartOfLoad, 1, depth)) \o RootFirst(depth + 1)

----------------------------------------------------------------------------
(* Properties of the loader: failures, the setEnv option *)

\* the start directory as the caller of the last load gave it
GivenStartDir ==
  IF "startDir" \in DOMAIN last.options THEN last.options.startDir ELSE cwd

\* neither ascent from a start directory finds a qualifying directory
NoRootFrom(startDir) ==
  \A d \in TestedDirs(startDir) : ~HoldsLockFile(d) /\ ~PassesIndicatorTest(d)

\* C11: when neither ascent finds a qualifying directory findEnvFiles
\* returns null and the load, async or sync, returns null, having read no
\* .env file and with process.env as it was at the call; in every other case
\* the load returns a result.
C11_NullOnlyWithoutRoot ==
  IsLoad(last) =>
    /\ NoRootFrom(GivenStartDir) <=> (findEnvFiles(GivenStartDir) = Null)
    /\ NoRootFrom(GivenStartDir) <=> (last.result = Null)
    /\ last.result = Null => (last.reads = <<>> /\ procEnv = last.envBefore)

\* no root above a start directory that holds a .env file
C11_Witness ==
  /\ IsLoad(last)
  /\ last.result = Null
  /\ \E n \in EnvFileNames :
        /\ Append(StartOfLoad, n) \in DOMAIN fs
        /\ \E k \in DOMAIN fs[Append(StartOfLoad, n)].vars : k \notin DOMAIN procEnv

\* the candidates whose read fails
Failed == {p \in Candidates : ~fs[p].readable}

\* whether candidate p is applied before candidate q: its directory is
\* closer to the workspace root, or it is the same and its name ranks lower
AppliedBefore(p, q) ==
  \/ Len(p) < Len(q)
  \/ Len(p) = Len(q) /\ Rank(basename(p)) < Rank(basename(q))

IndexIn(seq, x) == CHOOSE i \in 1..Len(seq) : seq[i] = x

\* the variables of the files of a sequence, a later file overriding the
\* ones before it
RECURSIVE Overlay(_)
Overlay(files) ==
  IF Len(files) = 0 THEN NoVars
  ELSE LET before == Overlay(SubSeq(files, 1, Len(files) - 1))
           top    == fs[files[Len(files)]].vars
       IN  [k \in DOMAIN before \cup DOMAIN top |->
              IF k \in DOMAIN top THEN top[k] ELSE before[k]]

\* C12: when the read of a candidate file fails the load still returns a
\* result; the file is in filesLoaded, after the candidates applied before
\* it and before the others; every other candidate is in filesLoaded; and
\* envVars is the overlay, in filesLoaded order, of the files whose read
\* succeeded.
C12_FailedFileNonFatal ==
  (IsLoad(last) /\ ~NoRootFrom(GivenStartDir) /\ Failed # {}) =>
    /\ last.result # Null
    /\ Range(last.result.filesLoaded) = Candidates
    /\ Len(last.result.filesLoaded) = Cardinality(Candidates)
    /\ \A p \in Failed : \A q \in Candidates \ {p} :
          AppliedBefore(p, q) <=>
            IndexIn(last.result.filesLoaded, p) < IndexIn(last.result.filesLoaded, q)
    /\ last.result.envVars =
          Overlay(SelectSeq(last.result.filesLoaded, LAMBDA p : fs[p].readable))

\* the file of highest priority cannot be read, and the key it defines has
\* the value of another file
C12_Witness ==
  /\ Loaded
  /\ \E p \in Failed : \E q \in Candidates :
        /\ AppliedBefore(q, p)
        /\ last.result.filesLoaded = <<q, p>>
        /\ \E k \in DOMAIN fs[p].vars :
              k \in DOMAIN last.result.envVars /\ last.result.envVars[k] = fs[q].vars[k]

\* the options of the last load with setEnv: true in place of what they give
WithSetEnv(options) ==
  [f \in DOMAIN options \cup {"setEnv"} |-> IF f = "setEnv" THEN TRUE ELSE options[f]]

\* C13: a load called with setEnv: false leaves process.env as it was at the
\* call and returns the envVars and filesLoaded the same call with
\* setEnv: true returns.
C13_SetEnvFalseFrame ==
  (IsLoad(last) /\ ~SetEnvEnabled(last.options)) =>
    /\ procEnv = last.envBefore
    /\ last.result = loadResult(WithSetEnv(last.options), last.envBefore)

\* the priority the README's list gives a file name within its directory,
\* 0 for a name that is not loaded in this environment
ReadmeRank(name) ==
  IF name = ".env." \o EnvironmentName \o ".local" /\ EnvironmentName # "test" THEN 4
  ELSE IF name = ".env." \o EnvironmentName THEN 3
  ELSE IF name = ".env.local" /\ EnvironmentName # "test" THEN 2
  ELSE IF name = ".env" THEN 1
  ELSE 0

\* C18: a key defined in several files of one directory (and in no
\* directory closer to the start) has the value of the file the README's
\* list ranks highest, .env < .env.local < .env.[NODE_ENV] <
\* .env.[NODE_ENV].local; so a key of both .env.local and .env.[NODE_ENV]
\* has the value of .env.[NODE_ENV].
C18_ReadmePriority ==
  Loaded =>
    \A k \in AllKeys :
      Cardinality(Closest(k)) >= 2
        => \E p \in Closest(k) :
              /\ \A q \in Closest(k) : ReadmeRank(basename(q)) <= ReadmeRank(basename(p))
              /\ k \in DOMAIN last.result.envVars
              /\ last.result.envVars[k] = fs[p].vars[k]

\* what parsing file p gives: its variables, none when the read fails
Parsed(p) == IF fs[p].readable THEN fs[p].vars ELSE NoVars

\* envVars is the fold of the files of a sequence: its keys are the keys
\* parsed from them, and each has the value of the last file that defines it
IsFoldOf(envVars, files) ==
  /\ DOMAIN envVars = UNION {DOMAIN Parsed(files[i]) : i \in 1..Len(files)}
  /\ \A k \in DOMAIN envVars :
        \E i \in 1..Len(files) :
           /\ k \in DOMAIN Parsed(files[i])
           /\ envVars[k] = Parsed(files[i])[k]
           /\ \A j \in (i + 1)..Len(files) : k \notin DOMAIN Parsed(files[j])

\* C20: the envVars a load returns is the fold of its filesLoaded; and
\* while loadEnvTree is suspended at a read, what it has merged is the fold
\* of the files it has recorded, which are the files before the awaited one
\* in the order of the merge.
C20_FoldLaw ==
  /\ Loaded => IsFoldOf(last.result.envVars, last.result.filesLoaded)
  /\ task # NoTask =>
        /\ IsFoldOf(task.acc.envVars, task.acc.filesLoaded)
        /\ task.acc.filesLoaded \o task.pending
             = filesToLoad(task.options, task.envBefore, task.located)

\* the later of two files gives the value of the key both define, the
\* earlier one the value of a key only it defines
C20_Witness ==
  /\ Loaded
  /\ last.op = "loadEnvTree"
  /\ Len(last.result.filesLoaded) = 2
  /\ LET first  == Parsed(last.result.filesLoaded[1])
         second == Parsed(last.result.filesLoaded[2])
     IN  \E k1, k2 \in DOMAIN first :
            /\ k1 \in DOMAIN second /\ last.result.envVars[k1] = second[k1]
            /\ second[k1] # first[k1]
            /\ k2 \notin DOMAIN second /\ last.result.envVars[k2] = first[k2]

----------------------------------------------------------------------------
(* Properties of overlapping loads *)

AllReturned ==
  /\ loadsLeft = 0
  /\ \A i \in 1..Len(inflight) : inflight[i].state = "returned"

\* call i resolves a value for key k
Resolves(i, k) ==
  /\ inflight[i].result # Null
  /\ k \in DOMAIN inflight[i].result.envVars

\* neither of two calls returned before the other was made
Overlap(i, j) ==
  /\ inflight[i].returnedAs > inflight[j].startedAfter
  /\ inflight[j].returnedAs > inflight[i].startedAfter

\* two calls that overlap and both resolve k, which process.env did not
\* define when either was made
BothResolve(i, j, k) ==
  /\ i # j
  /\ Overlap(i, j)
  /\ Resolves(i, k) /\ Resolves(j, k)
  /\ k \notin DOMAIN inflight[i].envBefore
  /\ k \notin DOMAIN inflight[j].envBefore

\* among the calls that resolve k, the one whose setEnv loop ran first, last
FirstToSet(k) ==
  CHOOSE i \in 1..Len(inflight) :
    Resolves(i, k) /\ \A j \in 1..Len(inflight) :
                        Resolves(j, k) => inflight[i].returnedAs <= inflight[j].returnedAs

LastToSet(k) ==
  CHOOSE i \in 1..Len(inflight) :
    Resolves(i, k) /\ \A j \in 1..Len(inflight) :
                        Resolves(j, k) => inflight[i].returnedAs >= inflight[j].returnedAs

\* C14 as stated: a key that two overlapping loads both resolve, unset
\* before either started, ends with the value of the load whose setEnv loop
\* ran last.
C14_LastMutationWins ==
  AllReturned =>
    \A k \in AllKeys : \A i, j \in 1..Len(inflight) :
      BothResolve(i, j, k) =>
        procEnv[k] = inflight[LastToSet(k)].result.envVars[k]

\* C14, amended: such a key ends with the value of the load whose setEnv
\* loop ran first; the loop of the other finds the key set and leaves it.
C14_FirstMutationWins ==
  AllReturned =>
    \A k \in AllKeys : \A i, j \in 1..Len(inflight) :
      BothResolve(i, j, k) =>
        procEnv[k] = inflight[FirstToSet(k)].result.envVars[k]

\* two overlapping loads resolved different values for a key, and the call
\* made first returned last
C14_Witness ==
  /\ AllReturned
  /\ \E k \in AllKeys : \E i, j \in 1..Len(inflight) :
        /\ BothResolve(i, j, k)
        /\ i < j
        /\ inflight[j].returnedAs < inflight[i].returnedAs
        /\ inflight[i].result.envVars[k] # inflight[j].result.envVars[k]
        /\ procEnv[k] = inflight[j].result.envVars[k]

----------------------------------------------------------------------------
(* Properties of the command *)

\* the command spawned a child, running or ended
Spawned == cli.stage \in {"spawned", "exited"} /\ cli.child.spawned

\* C15: the environment of the spawned child is process.env as the command
\* found it overlaid with the merged variables: every key of envVars has
\* its envVars value, every other key its ambient value, there is no other
\* key, and with no file loaded the child's environment is the ambient one.
C15_ChildEnvOverlay ==
  Spawned =>
    LET ambient == last.envBefore
        envVars == last.result.envVars
    IN  /\ DOMAIN cli.child.env = DOMAIN ambient \cup DOMAIN envVars
        /\ \A k \in DOMAIN envVars : cli.child.env[k] = envVars[k]
        /\ \A k \in DOMAIN ambient \ DOMAIN envVars : cli.child.env[k] = ambient[k]
        /\ last.result.filesLoaded = <<>> => cli.child.env = ambient

\* the child sees the file's value of a key the ambient environment defines
\* otherwise, and the ambient value of another key
C15_Witness ==
  /\ Spawned
  /\ \E k \in DOMAIN last.envBefore \cap DOMAIN last.result.envVars :
        /\ last.envBefore[k] # last.result.envVars[k]
        /\ cli.child.env[k] = last.result.envVars[k]
  /\ \E k \in DOMAIN last.envBefore \ DOMAIN last.result.envVars :
        cli.child.env[k] = last.envBefore[k]

\* C16: the command exits non-zero, without spawning, when no workspace
\* root is found; when it spawned a child its exit code is zero exactly when
\* the child exited with code 0, and is the child's exit code when the child
\* has one.
C16_ExitCodePropagated ==
  cli.stage = "exited" =>
    /\ last.result = Null => (cli.exitCode # 0 /\ ~cli.child.spawned)
    /\ cli.child.spawned =>
          /\ (cli.child.ended = "close" /\ "code" \in DOMAIN cli.child.close)
                => cli.exitCode = cli.child.close.code
          /\ cli.exitCode = 0 <=> (/\ cli.child.ended = "close"
                                   /\ "code" \in DOMAIN cli.child.close
                                   /\ cli.child.close.code = 0)

----------------------------------------------------------------------------
(* Properties of the example's callers *)

\* String.prototype.startsWith for the keys of the example
KeyStartsWith(k, prefix) == \E rest \in {"", "A", "B"} : k = prefix \o rest

\* the keys of the files a load read
KeysRead == UNION {DOMAIN fs[last.reads[i]].vars : i \in 1..Len(last.reads)}

\* C17: a load called with a prefixFilter returns in envVars, and writes to
\* process.env, only keys that start with the prefix; a load called without
\* one keeps every key of the files it read.
C17_PrefixFilter ==
  Loaded =>
    IF "prefixFilter" \in DOMAIN last.options
    THEN /\ \A k \in DOMAIN last.result.envVars :
              KeyStartsWith(k, last.options.prefixFilter)
         /\ \A k \in DOMAIN procEnv \ DOMAIN last.envBefore :
              KeyStartsWith(k, last.options.prefixFilter)
    ELSE DOMAIN last.result.envVars = KeysRead

----------------------------------------------------------------------------
(* Properties of the two listings of index.ts *)

\* C21: the two enumerations apply the files in the same sequence: for the
\* options and environment of a load, the first listing's list reversed is
\* the second listing's list, and the load, whichever listing ran it,
\* returns the filesLoaded and envVars that either listing computes.
C21_VariantsAgree ==
  IsLoad(last) =>
    LET first   == loadResult(last.options, last.envBefore)
        second  == loadByConfig(last.options, last.envBefore).result
        located == findEnvFiles(startDirOf(last.options))
    IN  /\ located # Null =>
              filesToLoad(last.options, last.envBefore, located)
                = getNextJsEnvFilesRootFirst(located.workspaceRoot,
                                             startDirOf(last.options),
                                             nodeEnvOf(last.options, last.envBefore))
        /\ (last.result = Null) <=> (first = Null)
        /\ (last.result = Null) <=> (second = Null)
        /\ last.result # Null =>
              /\ last.result.filesLoaded = first.filesLoaded
              /\ last.result.filesLoaded = second.filesLoaded
              /\ last.result.envVars = first.envVars
              /\ last.result.envVars = second.envVars

\* the load applied a file of the workspace root and then a file of the
\* start directory, which overrode a value of the first
C21_Witness ==
  /\ Loaded
  /\ Len(last.result.filesLoaded) = 2
  /\ dirname(last.result.filesLoaded[1]) = last.result.workspaceRoot
  /\ dirname(last.result.filesLoaded[2]) = StartOfLoad
  /\ StartOfLoad # last.result.workspaceRoot
  /\ \E k \in DOMAIN last.result.envVars :
        /\ Defines(last.result.filesLoaded[1], k)
        /\ Defines(last.result.filesLoaded[2], k)
        /\ last.result.envVars[k] = fs[last.result.filesLoaded[2]].vars[k]

----------------------------------------------------------------------------
(* Properties of the directory list of a load *)

\* the list of directories the first listing's getNextJsEnvFiles builds for
\* the last load
DirsOfLoad ==
  collectDirs(resolve(startDirOf(last.options)), resolve(last.result.workspaceRoot))

----------------------------------------------------------------------------
(* Properties of the locator at the filesystem root *)

\* what the ascents of the last call returned: the result of findEnvFiles,
\* or the results of the two ascents that compareWorkspaceDetectionMethods
\* runs
AscentResults ==
  IF last.op = "findEnvFiles" THEN {last.result}
  ELSE IF last.op = "compareWorkspaceDetectionMethods"
       THEN {last.result.lockFileMethod, last.result.workspaceIndicatorMethod}
       ELSE {}

\* C23: neither ascent tests the filesystem root: no result of
\* findEnvFilesUsingLockFiles, findEnvFilesUsingWorkspaceIndicators or
\* findEnvFiles has "/" as workspaceRoot, a start directory that resolves to
\* "/" gives null whatever "/" holds, and a workspaceRoot returned is the
\* resolved start directory or an ancestor of it other than "/".
C23_RootNeverTested ==
  \A r \in AscentResults :
    /\ resolve(last.startDir) = FsRoot => r = Null
    /\ r # Null => /\ r.workspaceRoot # FsRoot
                   /\ r.workspaceRoot \in TestedDirs(last.startDir)

\* both ascents started below "/", which holds a lock file and an indicator,
\* went up to it and returned null
C23_Witness ==
  /\ last.op = "compareWorkspaceDetectionMethods"
  /\ resolve(last.startDir) # FsRoot
  /\ HoldsLockFile(FsRoot)
  /\ PassesIndicatorTest(FsRoot)
  /\ last.result.lockFileMethod = Null
  /\ last.result.workspaceIndicatorMethod = Null

----------------------------------------------------------------------------
(* Properties of the setEnv loop of overlapping loads *)

\* the keys two overlapping calls both resolve, unset when either was made
SharedKeys(i, j) == {k \in AllKeys : BothResolve(i, j, k)}

\* of two calls, the one whose setEnv loop ran first
FirstOf(i, j) ==
  IF inflight[i].returnedAs < inflight[j].returnedAs THEN i ELSE j

\* no third call that resolves a key the two share ran its setEnv loop
\* before both of them
Undisturbed(i, j) ==
  \A m \in 1..Len(inflight) : \A k \in SharedKeys(i, j) :
    (m \notin {i, j} /\ Resolves(m, k))
      => inflight[m].returnedAs > inflight[FirstOf(i, j)].returnedAs

\* when all calls have returned, the keys two overlapping calls share all
\* have the value of the one call whose setEnv loop ran first
NoMixedWrites ==
  AllReturned =>
    \A i, j \in 1..Len(inflight) :
      (SharedKeys(i, j) # {} /\ Undisturbed(i, j)) =>
        \A k \in SharedKeys(i, j) :
          procEnv[k] = inflight[FirstOf(i, j)].result.envVars[k]

\* call i returns in this step
CallReturns(i) ==
  /\ i \in 1..Len(inflight')
  /\ inflight'[i].state = "returned"
  /\ (i \in 1..Len(inflight) => inflight[i].state = "suspended")

\* A step changes process.env only when a call returns in it, and then the
\* call has read all its files and the step tests and writes every key the
\* call resolved: a key process.env defined keeps its value, every other
\* resolved key gets the call's value, and no other key appears.
SetEnvInOneStep ==
  /\ procEnv' # procEnv => \E i \in 1..Len(inflight') : CallReturns(i)
  /\ \A i \in 1..Len(inflight') :
       (CallReturns(i) /\ inflight'[i].result # Null) =>
         LET envVars == inflight'[i].result.envVars
         IN  /\ inflight'[i].reads = inflight'[i].result.filesLoaded
             /\ DOMAIN procEnv' = DOMAIN procEnv \cup DOMAIN envVars
             /\ \A k \in DOMAIN procEnv : procEnv'[k] = procEnv[k]
             /\ \A k \in DOMAIN envVars \ DOMAIN procEnv : procEnv'[k] = envVars[k]

\* C24: the setEnv loop of a load runs in one step with its return, after
\* all the reads of that load, testing and writing every resolved key in
\* that step; so when two overlapping loads both resolve keys that were
\* unset beforehand, all those keys end with the values of the one load
\* whose setEnv loop ran first, never some from one load and some from the
\* other.
C24_AtomicSetEnv == []NoMixedWrites /\ [][SetEnvInOneStep]_vars

\* two overlapping loads resolved different values for two keys; the call
\* made second ran its setEnv loop first, between two reads of the other,
\* and both keys have its values
C24_Witness ==
  /\ AllReturned
  /\ \E i, j \in 1..Len(inflight) :
        /\ i < j
        /\ FirstOf(i, j) = j
        /\ Undisturbed(i, j)
        /\ Len(inflight[i].reads) >= 2
        /\ Cardinality(SharedKeys(i, j)) >= 2
        /\ \A k \in SharedKeys(i, j) :
              /\ inflight[i].result.envVars[k] # inflight[j].result.envVars[k]
              /\ procEnv[k] = inflight[j].result.envVars[k]

====
